---- MODULE Spec2Model ----
(***************************************************************************)
(* Model of the go-health scheduler (package health, v2): the Health       *)
(* struct, its lifecycle operations AddCheck / AddChecks / Start / Stop,   *)
(* the per-config worker goroutine of startRunner, the state store with    *)
(* State() / Failed(), the status-transition dispatcher and the goroutines *)
(* it and checkFunc launch for the listener and the OnComplete hook.       *)
(***************************************************************************)
EXTENDS Integers, Sequences, FiniteSets, TLC

\* ---------------------------------------------------------------- bounds
MaxConfigs == 2      \* registered configurations per instance
MaxBatch == 2        \* length of one AddChecks argument
MaxFailures == 2     \* stored streak length up to which a checker may fail again
MaxWorkers == 4      \* goroutines spawned over the life of an instance
MaxClock == 2        \* the latest time the clock reaches
MaxCallbacks == 1    \* listener and hook goroutines in flight at one time
MaxSnaps == 2        \* maps returned by State() that the host still holds
MaxBlocked == 1      \* launched goroutines that block for good
MaxLogged == 2       \* error events one worker hands to the logger
MaxCallers == 2      \* goroutines that call the methods of one sBool

\* ------------------------------------------------------------- vocabulary
Names == {"foo", "bar"}

\* Config: the fields of the struct the scheduler reads (Name, Fatal, whether
\* OnComplete is non-nil and whether Checker is non-nil); the configs a host
\* registers here are a non-fatal "foo" and a fatal "bar" (the same config may
\* be registered more than once).
Config ==
    {[Name |-> "foo", Fatal |-> FALSE, OnComplete |-> FALSE, Checker |-> TRUE],
     [Name |-> "bar", Fatal |-> TRUE, OnComplete |-> FALSE, Checker |-> TRUE]}

\* the same two configs for a host that gives "foo" an OnComplete hook
HookedConfig ==
    {[Name |-> "foo", Fatal |-> FALSE, OnComplete |-> TRUE, Checker |-> TRUE],
     [Name |-> "bar", Fatal |-> TRUE, OnComplete |-> FALSE, Checker |-> TRUE]}

\* the same two configs for a host that leaves the Checker of "bar" nil
NilCheckerConfig ==
    {[Name |-> "foo", Fatal |-> FALSE, OnComplete |-> FALSE, Checker |-> TRUE],
     [Name |-> "bar", Fatal |-> TRUE, OnComplete |-> FALSE, Checker |-> FALSE]}

nil == "nil"
ErrNoAddCfgWhenActive == "ErrNoAddCfgWhenActive"
ErrAlreadyRunning == "ErrAlreadyRunning"
ErrAlreadyStopped == "ErrAlreadyStopped"

\* outcomes of ICheckable.Status(): no error, or an error with a message
CheckErrs == {nil, "things broke"}

\* sequences over S of length 0..n
RECURSIVE SeqsUpTo(_, _)
SeqsUpTo(S, n) ==
    IF n = 0 THEN {<< >>}
    ELSE LET shorter == SeqsUpTo(S, n - 1)
         IN  shorter \cup {Append(s, x) : s \in {t \in shorter : Len(t) = n - 1}, x \in S}

\* the slices a host may pass to AddChecks
Batches == SeqsUpTo(Config, MaxBatch)

\* the lists a host registers in one call in the scenarios below: one check,
\* or a check named "foo" followed by a second check that shares the name or
\* has the other name
Registrations(cfgset) ==
    {<<c>> : c \in cfgset}
      \cup {<<c, d>> : c \in {x \in cfgset : x.Name = "foo"}, d \in cfgset}

\* the names of a config list are pairwise distinct
DistinctNames(cs) == \A i, j \in 1..Len(cs) : cs[i].Name = cs[j].Name => i = j

\* s without its i-th element
RemoveAt(s, i) == [j \in 1..(Len(s) - 1) |-> IF j < i THEN s[j] ELSE s[j + 1]]

VARIABLES
    active,     \* h.active: the sBool's value
    configs,    \* h.configs: sequence of Config, in registration order
    runners,    \* h.runners: map name -> stop channel (channel = index into chans)
    chans,      \* the stop channels made by Start: chans[i] is TRUE once closed
    workers,    \* the goroutines spawned by startRunner; workers[i] listens on chans[i]
    states,     \* h.states: map name -> State
    hist,       \* the last two API calls and what they returned, latest last
    clock,      \* what time.Now() returns (the zero time is 0)
    listener,   \* h.StatusListener != nil
    cbs,        \* the goroutines launched for the listener and the hooks, not yet returned
    snaps,      \* the maps State() handed to the host, and the call in progress
    statesLock, \* h.statesLock: 0 when free, else the worker that holds it
    logs,       \* what h.Logger was handed: the number of events, per message
    sb,         \* an sBool of its own with the goroutines that call its methods
    streak      \* observation, per worker: the failed checks it stored in a row

vars == <<active, configs, runners, chans, workers, states, hist, clock, listener, cbs, snaps, statesLock, logs, sb, streak>>

\* ------------------------------------------------------------ sBool (safe.go)
\* the field v of an sBool: after NewBool, as val returns it, after setTrue,
\* after setFalse, and what String makes of it
newBool == FALSE

sBoolVal(b) == b

setTrue(b) == TRUE

setFalse(b) == FALSE

sBoolString(b) == IF b THEN "true" ELSE "false"

\* The methods of an sBool followed through their mutex, for the goroutines
\* Callers that call them on one sBool. Of a caller, op is the method it is
\* in ("" between calls), ret the v it has read there, result what its last
\* call returned, and pc is
\*   "idle"    between calls
\*   "lock"    in the method, before b.mu.Lock() has returned
\*   "held"    holds the mutex; the statement of the method is next
\*   "unlock"  the statement is done; the deferred b.mu.Unlock() and the
\*             return are next
\* mu is the caller that holds b.mu (0: free); last is the value written by
\* the setter that returned most recently, FALSE while none has (an
\* observation).
Callers == 1..MaxCallers
Methods == {"setTrue", "setFalse", "val", "String"}
Setters == {"setTrue", "setFalse"}
IdleCaller == [op |-> "", pc |-> "idle", ret |-> FALSE, result |-> ""]

\* NewBool(): v false, a new mutex
NewSBool == [v |-> newBool, mu |-> 0, last |-> FALSE, callers |-> [c \in Callers |-> IdleCaller]]

\* (mutation: Lock() returns at once, whoever holds the mutex)
sBoolMutexFree_Ignored(mu) == TRUE

\* b.mu.Lock() returns only while no goroutine holds the mutex
sBoolMutexFree(mu) == mu = 0

\* ----------------------------------------------------------------- State
\* isFailure: the status string compared with "failed"
isFailure(s) == s.Status = "failed"

\* the zero value of State, which a Go map read yields for an absent key
ZeroState ==
    [Name |-> "", Status |-> "", Err |-> "", Fatal |-> FALSE,
     ContiguousFailures |-> 0, TimeOfFirstFailure |-> 0]

\* h.states[name] as Go evaluates it
StateAt(m, name) == IF name \in DOMAIN m THEN m[name] ELSE ZeroState

\* make(map[...]..., 0)
EmptyMap == << >>

\* m[k] = v on a Go map
MapSet(m, k, v) == [x \in (DOMAIN m) \cup {k} |-> IF x = k THEN v ELSE m[x]]

\* delete(m, k) on a Go map
MapDelete(m, k) == [x \in (DOMAIN m) \ {k} |-> m[x]]

\* (mutation: nobody waits for the mutex)
LockFree_NoMutex == TRUE

\* h.statesLock.Lock() returns only while no goroutine holds the mutex; an
\* action that locks and unlocks within one step needs the mutex free
LockFree == statesLock = 0

\* ------------------------------------------------------------ bookkeeping
\* one API call returned: remember it
Record(op, err) ==
    hist' = IF hist = << >>
            THEN <<[op |-> op, err |-> err]>>
            ELSE <<hist[Len(hist)], [op |-> op, err |-> err]>>

\* ------------------------------------------------------------------ Logger
\* nothing logged: "Starting checker" and "Stopping checker" are counted by
\* the name in their field, "Checker exiting" and "healthcheck has failed" by
\* the worker goroutine that logs them
NoLogs ==
    [starting |-> [n \in Names |-> 0], stopping |-> [n \in Names |-> 0],
     exiting |-> << >>, failed |-> << >>]

\* ----------------------------------------------------------------- New()
Init ==
    /\ active = newBool
    /\ configs = << >>
    /\ runners = EmptyMap
    /\ chans = << >>
    /\ workers = << >>
    /\ states = EmptyMap
    /\ hist = << >>
    /\ clock = 1
    /\ listener = FALSE
    /\ cbs = << >>
    /\ snaps = << >>
    /\ statesLock = 0
    /\ logs = NoLogs
    /\ sb = NewSBool
    /\ streak = << >>

\* ------------------------------------------------------ AddChecks / AddCheck
\* (mutation: the active check is missing)
AddErr_NoGuard(act) == nil

\* the error both registration calls return
AddErr(act) == IF sBoolVal(act) THEN ErrNoAddCfgWhenActive ELSE nil

\* (mutation: the new slice replaces the list)
AppendConfigs_Replace(cs, cfgs) == cfgs

\* append(h.configs, cfgs...)
AppendConfigs(cs, cfgs) == cs \o cfgs

AddChecks(cfgs) ==
    /\ AddErr(active) # nil \/ Len(configs) + Len(cfgs) <= MaxConfigs
    /\ IF AddErr(active) # nil
       THEN /\ Record("AddChecks", AddErr(active))
            /\ UNCHANGED configs
       ELSE /\ configs' = AppendConfigs(configs, cfgs)
            /\ Record("AddChecks", nil)
    /\ UNCHANGED <<active, runners, chans, workers, states, clock, listener, cbs, snaps, statesLock>>

AddCheck(cfg) ==
    /\ AddErr(active) # nil \/ Len(configs) + 1 <= MaxConfigs
    /\ IF AddErr(active) # nil
       THEN /\ Record("AddCheck", AddErr(active))
            /\ UNCHANGED configs
       ELSE /\ configs' = AppendConfigs(configs, <<cfg>>)
            /\ Record("AddCheck", nil)
    /\ UNCHANGED <<active, runners, chans, workers, states, clock, listener, cbs, snaps, statesLock>>

\* the host assigns h.StatusListener, before Start
SetStatusListener ==
    /\ ~sBoolVal(active)
    /\ ~listener
    /\ listener' = TRUE
    /\ UNCHANGED <<active, configs, runners, chans, workers, states, hist, clock, cbs, snaps, statesLock>>

\* -------------------------------------------------------------------- Start
\* (mutation: the active check is missing)
StartErr_NoGuard(act) == nil

\* the lifecycle error of Start
StartErr(act) == IF sBoolVal(act) THEN ErrAlreadyRunning ELSE nil

\* (mutation: no early return, as in the older revision)
StartIsNoop_Never(cs) == FALSE

\* "if len(h.configs) < 1 { return nil }"
StartIsNoop(cs) == Len(cs) < 1

\* (mutation: the goroutine waits for the first tick)
NewWorker_WaitsForTick(cfg) ==
    [cfg |-> cfg, pc |-> "select", entry |-> ZeroState, prev |-> ZeroState, ticker |-> TRUE]

\* the goroutine startRunner launches for one config: about to run checkFunc,
\* with the ticker Start made for it (time.NewTicker), which is running
NewWorker(cfg) ==
    [cfg |-> cfg, pc |-> "check", entry |-> ZeroState, prev |-> ZeroState, ticker |-> TRUE]

\* the goroutines launched by the loop over h.configs, in config order
SpawnWorkers(cs) == [i \in 1..Len(cs) |-> NewWorker(cs[i])]

\* one fresh (open) stop channel per config
MakeChans(cs) == [i \in 1..Len(cs) |-> FALSE]

\* (mutation: one stop channel made before the loop and shared by all)
RunnersAfterStart_Shared(rs, cs, base) ==
    [n \in (DOMAIN rs) \cup {cs[i].Name : i \in 1..Len(cs)} |->
        IF n \in {cs[i].Name : i \in 1..Len(cs)} THEN base + 1 ELSE rs[n]]

\* h.runners after the loop's "h.runners[c.Name] = stop": the i-th config's
\* channel is chans[base + i]; a later config of the same name overwrites
RunnersAfterStart(rs, cs, base) ==
    LET named == {cs[i].Name : i \in 1..Len(cs)}
        lastOf(n) == CHOOSE i \in 1..Len(cs) :
                        /\ cs[i].Name = n
                        /\ \A j \in 1..Len(cs) : cs[j].Name = n => j <= i
    IN  [n \in (DOMAIN rs) \cup named |-> IF n \in named THEN base + lastOf(n) ELSE rs[n]]

\* (mutation: the runner map is reset before the flag is looked at)
RunnersAfterRefusedStart_Reset(rs) == EmptyMap

\* h.runners when Start returns ErrAlreadyRunning: the return is the first
\* statement that runs
RunnersAfterRefusedStart(rs) == rs

Start ==
    /\ Len(workers) + Len(configs) <= MaxWorkers
    /\ IF StartErr(active) # nil
       THEN /\ Record("Start", StartErr(active))
            /\ runners' = RunnersAfterRefusedStart(runners)
            /\ UNCHANGED <<active, chans, workers>>
       ELSE IF StartIsNoop(configs)
       THEN /\ Record("Start", nil)
            /\ UNCHANGED <<active, runners, chans, workers>>
       ELSE /\ workers' = workers \o SpawnWorkers(configs)
            /\ chans' = chans \o MakeChans(configs)
            /\ runners' = RunnersAfterStart(runners, configs, Len(chans))
            /\ active' = setTrue(active)
            /\ Record("Start", nil)
    /\ UNCHANGED <<configs, states, clock, listener, cbs, snaps, statesLock>>

\* --------------------------------------------------------------------- Stop
\* the lifecycle error of Stop
StopErr(act) == IF ~sBoolVal(act) THEN ErrAlreadyStopped ELSE nil

\* the loop "for name, stop := range h.runners { close(stop) }"
CloseRunners(chs, rs) ==
    [i \in 1..Len(chs) |-> chs[i] \/ (\E n \in DOMAIN rs : rs[n] = i)]

\* (mutation: Stop clears the flag)
ActiveAfterStop_Reset(act) == FALSE

\* the value of h.active when Stop returns nil: Stop never writes the flag
ActiveAfterStop(act) == act

\* (mutation: Stop forgets the registered configs)
ConfigsAfterStop_Forget(cs) == << >>

\* h.configs when Stop returns: Stop never writes the list
ConfigsAfterStop(cs) == cs

\* (mutation: Stop ends the goroutines where they are)
WorkersAfterStop_Interrupt(ws) == [w \in DOMAIN ws |-> [ws[w] EXCEPT !.pc = "done"]]

\* the worker goroutines when Stop returns: Stop closes the channels and
\* returns, it neither waits for a goroutine nor touches one
WorkersAfterStop(ws) == ws

\* the loop would close a channel that is closed already: close() panics
DoubleClose(chs, rs) == \E n \in DOMAIN rs : chs[rs[n]]

\* (mutation: the runner map is kept)
RunnersAfterStop_Kept(rs) == rs

\* "h.runners = make(map[string]chan struct{}, 0)"
RunnersAfterStop(rs) == EmptyMap

Stop ==
    /\ StopErr(active) # nil \/ (LockFree /\ ~DoubleClose(chans, runners))
    /\ IF StopErr(active) # nil
       THEN /\ Record("Stop", StopErr(active))
            /\ UNCHANGED <<active, configs, runners, chans, workers, states>>
       ELSE /\ chans' = CloseRunners(chans, runners)
            /\ runners' = RunnersAfterStop(runners)
            /\ states' = EmptyMap
            /\ active' = ActiveAfterStop(active)
            /\ configs' = ConfigsAfterStop(configs)
            /\ workers' = WorkersAfterStop(workers)
            /\ Record("Stop", nil)
    /\ UNCHANGED <<clock, listener, cbs, snaps, statesLock>>

\* ----------------------------------------------------- worker (startRunner)
\* pc of a worker goroutine:
\*   "check"   in checkFunc, up to and including the call cfg.Checker.Status()
\*   "first"   in handleStatusListener on a new failure, the goroutine for
\*             HealthCheckFailed launched; the write of TimeOfFirstFailure is next
\*   "count"   the write of ContiguousFailures is next
\*   "update"  handleStatusListener has returned; the store write of
\*             safeUpdateState is next
\*   "select"  waiting in the select between ticker.C and stop
\*   "done"    left RunLoop (ticker stopped, "Checker exiting" logged)
\*   "panic"   panicked, nothing recovered it
\*   "killed"  ended with the program, which a panic elsewhere has ended
\* entry is checkFunc's *stateEntry and prev is handleStatusListener's
\* prevState; they are out of scope (zero here) outside these steps. ticker
\* is TRUE while the goroutine's time.Ticker runs, FALSE once it is stopped.
SetWorker(w, pc, entry, prev) ==
    workers' = [workers EXCEPT ![w] = [@ EXCEPT !.pc = pc, !.entry = entry, !.prev = prev]]

\* (mutation: the error's message is not copied)
NewEntry_NoErrText(cfg, err) ==
    [Name |-> cfg.Name,
     Status |-> IF err # nil THEN "failed" ELSE "ok",
     Err |-> "",
     Fatal |-> cfg.Fatal,
     ContiguousFailures |-> 0,
     TimeOfFirstFailure |-> 0]

\* the prospective State checkFunc builds from the checker's result
NewEntry(cfg, err) ==
    [Name |-> cfg.Name,
     Status |-> IF err # nil THEN "failed" ELSE "ok",
     Err |-> IF err # nil THEN err ELSE "",
     Fatal |-> cfg.Fatal,
     ContiguousFailures |-> 0,
     TimeOfFirstFailure |-> 0]

\* (mutation: the failure is not counted)
Bookkeep_NoCount(entry, prevState, now) ==
    IF isFailure(entry)
    THEN [entry EXCEPT !.TimeOfFirstFailure = now, !.ContiguousFailures = prevState.ContiguousFailures]
    ELSE entry

\* (mutation: the time of first failure is carried into every state)
Bookkeep_CarryAlways(entry, prevState, now) ==
    [entry EXCEPT
        !.TimeOfFirstFailure = IF isFailure(prevState) THEN prevState.TimeOfFirstFailure ELSE now,
        !.ContiguousFailures = IF isFailure(entry) THEN prevState.ContiguousFailures + 1 ELSE 0]

\* (mutation: every failing check stamps the time of first failure anew)
Bookkeep_Restamp(entry, prevState, now) ==
    IF isFailure(entry)
    THEN [entry EXCEPT !.TimeOfFirstFailure = now,
                       !.ContiguousFailures = prevState.ContiguousFailures + 1]
    ELSE entry

\* handleStatusListener's bookkeeping on the prospective state; now is what
\* time.Now() returns
Bookkeep(entry, prevState, now) ==
    IF isFailure(entry)
    THEN [entry EXCEPT
            !.TimeOfFirstFailure =
                IF ~isFailure(prevState) THEN now ELSE prevState.TimeOfFirstFailure,
            !.ContiguousFailures = prevState.ContiguousFailures + 1]
    ELSE entry

\* ------------------------------------------- listener and hook goroutines
\* A goroutine launched by "go f(stateEntry, ...)": kind says which callback,
\* ref is the worker whose checkFunc still holds the *State passed (0 once that
\* checkFunc has returned: entry is then the State pointed to), the two
\* numbers are the other arguments of HealthCheckRecovered, and blocked says
\* that the callback has blocked for good.
Callback(kind, ref, entry, n, secs) ==
    [kind |-> kind, ref |-> ref, entry |-> entry, recordedFailures |-> n, failureSeconds |-> secs,
     blocked |-> FALSE, started |-> FALSE]

\* the launched goroutines that are still at work
Running(cs) == Cardinality({i \in DOMAIN cs : ~cs[i].blocked})

\* (mutation: the callbacks are called in the worker's goroutine)
LauncherWaits_Call(cs) == cs # << >>

\* "go f(...)": the goroutine that launches f goes on at once and never waits
\* for what it launched
LauncherWaits(cs) == FALSE

\* the State a callback reads through its pointer now
Pointee(cb) == IF cb.ref # 0 THEN workers[cb.ref].entry ELSE cb.entry

\* checkFunc of worker w returns: its stateEntry, now e, lives on in the
\* goroutines that were handed the pointer
Settle(cs, w, e) ==
    [i \in DOMAIN cs |-> IF cs[i].ref = w THEN [cs[i] EXCEPT !.ref = 0, !.entry = e] ELSE cs[i]]

\* (mutation: every failing check counts as a new failure)
IsNewFailure_Always(entry, prevState) == isFailure(entry)

\* "if stateEntry.isFailure() { if !prevState.isFailure() {"
IsNewFailure(entry, prevState) == isFailure(entry) /\ ~isFailure(prevState)

\* "} else if prevState.isFailure() {"
IsRecovery(entry, prevState) == ~isFailure(entry) /\ isFailure(prevState)

\* (mutation: the length of the new streak is reported)
RecordedFailures_New(prevState) == 0

\* the second argument of HealthCheckRecovered
RecordedFailures(prevState) == prevState.ContiguousFailures

\* time.Now().Sub(prevState.TimeOfFirstFailure).Seconds(), in clock units
FailureSeconds(now, prevState) == now - prevState.TimeOfFirstFailure

\* Status() returns err; checkFunc builds stateEntry and safeUpdateState calls
\* handleStatusListener, which reads the previous state under the lock,
\* launches the listener's goroutine if there is one to launch, and updates the
\* prospective state. With a goroutine for HealthCheckFailed launched, the two
\* writes that follow it in the code are steps of their own.
StatusReturns(w, err) ==
    LET entry == NewEntry(workers[w].cfg, err)
        prevState == StateAt(states, workers[w].cfg.Name)
    IN  /\ workers[w].pc = "check"
        /\ workers[w].cfg.Checker
        /\ LockFree
        /\ err = nil \/ prevState.ContiguousFailures < MaxFailures
        /\ IF listener /\ IsNewFailure(entry, prevState)
           THEN /\ Running(cbs) < MaxCallbacks
                /\ cbs' = Append(cbs, Callback("failed", w, ZeroState, 0, 0))
                /\ SetWorker(w, "first", entry, prevState)
           ELSE IF listener /\ IsRecovery(entry, prevState)
           THEN /\ Running(cbs) < MaxCallbacks
                /\ cbs' = Append(cbs, Callback("recovered", w, ZeroState,
                                               RecordedFailures(prevState),
                                               FailureSeconds(clock, prevState)))
                /\ SetWorker(w, "update", entry, ZeroState)
           ELSE /\ SetWorker(w, "update", Bookkeep(entry, prevState, clock), ZeroState)
                /\ UNCHANGED cbs
        /\ UNCHANGED <<active, configs, runners, chans, states, hist, clock, listener, snaps, statesLock>>

\* "stateEntry.TimeOfFirstFailure = time.Now()", after the go statement
SetTimeOfFirstFailure(w) ==
    /\ workers[w].pc = "first"
    /\ ~LauncherWaits(cbs)
    /\ SetWorker(w, "count", [workers[w].entry EXCEPT !.TimeOfFirstFailure = clock], workers[w].prev)
    /\ UNCHANGED <<active, configs, runners, chans, states, hist, clock, listener, cbs, snaps, statesLock>>

\* "stateEntry.ContiguousFailures = prevState.ContiguousFailures + 1"
SetContiguousFailures(w) ==
    /\ workers[w].pc = "count"
    /\ SetWorker(w, "update",
                 [workers[w].entry EXCEPT !.ContiguousFailures = workers[w].prev.ContiguousFailures + 1],
                 ZeroState)
    /\ UNCHANGED <<active, configs, runners, chans, states, hist, clock, listener, cbs, snaps, statesLock>>

\* (mutation: the hook is handed the zero State)
HookArg_Zero(e) == ZeroState

\* the State behind the pointer handed to cfg.OnComplete
HookArg(e) == e

\* "if cfg.OnComplete != nil { go cfg.OnComplete(stateEntry) }"
HookCalls(cfg, e) ==
    IF cfg.OnComplete THEN <<Callback("complete", 0, HookArg(e), 0, 0)>> ELSE << >>

\* (mutation: a failed check ends the goroutine)
AfterCheck_ExitOnFailure(e) == IF isFailure(e) THEN "done" ELSE "select"

\* where the goroutine goes when checkFunc returns: back to the select of
\* RunLoop, whatever the check stored
AfterCheck(e) == "select"

\* safeUpdateState's write under the lock, then the hook's goroutine is
\* launched; checkFunc returns and the worker waits in the select
SafeUpdateState(w) ==
    /\ workers[w].pc = "update"
    /\ ~LauncherWaits(cbs)
    /\ LockFree
    /\ Running(cbs) + Len(HookCalls(workers[w].cfg, workers[w].entry)) <= MaxCallbacks
    /\ states' = MapSet(states, workers[w].entry.Name, workers[w].entry)
    /\ cbs' = Settle(cbs, w, workers[w].entry) \o HookCalls(workers[w].cfg, workers[w].entry)
    /\ SetWorker(w, AfterCheck(workers[w].entry), ZeroState, ZeroState)
    /\ UNCHANGED <<active, configs, runners, chans, hist, clock, listener, snaps, statesLock>>

\* (mutation: a closed stop channel goes before a pending tick)
TickReady_StopFirst(w) == workers[w].ticker /\ ~chans[w]

\* the case <-ticker.C of the select can be taken: a running ticker sends,
\* whatever the stop channel; of several ready cases select takes any one
TickReady(w) == workers[w].ticker

\* select: case <-ticker.C, checkFunc() is called
SelectTick(w) ==
    /\ workers[w].pc = "select"
    /\ TickReady(w)
    /\ ~LauncherWaits(cbs)
    /\ SetWorker(w, "check", ZeroState, ZeroState)
    /\ UNCHANGED <<active, configs, runners, chans, states, hist, clock, listener, cbs, snaps, statesLock>>

\* (mutation: the goroutine returns and its ticker is left running)
TickerAfterExit_Leaked(t) == t

\* "defer ticker.Stop()": the goroutine's ticker once the goroutine has ended
TickerAfterExit(t) == FALSE

\* select: case <-stop (ready once the channel is closed), then the exit:
\* break RunLoop, the goroutine returns and the deferred ticker.Stop() runs
SelectStop(w) ==
    /\ workers[w].pc = "select"
    /\ ~LauncherWaits(cbs)
    /\ chans[w]
    /\ workers' = [workers EXCEPT ![w] = [@ EXCEPT !.pc = "done", !.entry = ZeroState, !.prev = ZeroState,
                                                   !.ticker = TickerAfterExit(@)]]
    /\ UNCHANGED <<active, configs, runners, chans, states, hist, clock, listener, cbs, snaps, statesLock>>

\* ---------------------------------------- the same check, the mutex followed
\* The steps of one check with the mutex taken and released in steps of their
\* own. The pc of the worker is then also
\*   "prev"       Status() has returned and stateEntry is built; the Lock() of
\*                handleStatusListener is next
\*   "prevheld"   holds the mutex; the read of h.states and the Unlock() are next
\*   "updateheld" holds the mutex; the write of h.states and the deferred
\*                Unlock() are next

\* (mutation: the Unlock is missing)
Unlock_Missing(w) == w

\* h.statesLock.Unlock() by worker w
Unlock(w) == 0

\* "data, err := cfg.Checker.Status()" returns and stateEntry is built
CheckerReturns(w, err) ==
    /\ workers[w].pc = "check"
    /\ workers[w].cfg.Checker
    /\ err = nil \/ StateAt(states, workers[w].cfg.Name).ContiguousFailures < MaxFailures
    /\ SetWorker(w, "prev", NewEntry(workers[w].cfg, err), ZeroState)
    /\ UNCHANGED <<active, configs, runners, chans, states, hist, clock, listener, cbs, snaps, statesLock>>

\* handleStatusListener: "h.statesLock.Lock()"
LockPrev(w) ==
    /\ workers[w].pc = "prev"
    /\ LockFree
    /\ statesLock' = w
    /\ SetWorker(w, "prevheld", workers[w].entry, ZeroState)
    /\ UNCHANGED <<active, configs, runners, chans, states, hist, clock, listener, cbs, snaps>>

\* "prevState := h.states[stateEntry.Name]; h.statesLock.Unlock()", and the
\* rest of handleStatusListener as in StatusReturns
UnlockPrev(w) ==
    LET entry == workers[w].entry
        prevState == StateAt(states, workers[w].cfg.Name)
    IN  /\ workers[w].pc = "prevheld"
        /\ statesLock' = Unlock(w)
        /\ IF listener /\ IsNewFailure(entry, prevState)
           THEN /\ Running(cbs) < MaxCallbacks
                /\ cbs' = Append(cbs, Callback("failed", w, ZeroState, 0, 0))
                /\ SetWorker(w, "first", entry, prevState)
           ELSE IF listener /\ IsRecovery(entry, prevState)
           THEN /\ Running(cbs) < MaxCallbacks
                /\ cbs' = Append(cbs, Callback("recovered", w, ZeroState,
                                               RecordedFailures(prevState),
                                               FailureSeconds(clock, prevState)))
                /\ SetWorker(w, "update", entry, ZeroState)
           ELSE /\ SetWorker(w, "update", Bookkeep(entry, prevState, clock), ZeroState)
                /\ UNCHANGED cbs
        /\ UNCHANGED <<active, configs, runners, chans, states, hist, clock, listener, snaps>>

\* safeUpdateState: "h.statesLock.Lock()"
LockUpdate(w) ==
    /\ workers[w].pc = "update"
    /\ LockFree
    /\ statesLock' = w
    /\ SetWorker(w, "updateheld", workers[w].entry, ZeroState)
    /\ UNCHANGED <<active, configs, runners, chans, states, hist, clock, listener, cbs, snaps>>

\* "h.states[stateEntry.Name] = *stateEntry", the deferred Unlock(), then the
\* hook's goroutine is launched and checkFunc returns
UnlockUpdate(w) ==
    /\ workers[w].pc = "updateheld"
    /\ Running(cbs) + Len(HookCalls(workers[w].cfg, workers[w].entry)) <= MaxCallbacks
    /\ states' = MapSet(states, workers[w].entry.Name, workers[w].entry)
    /\ statesLock' = Unlock(w)
    /\ cbs' = Settle(cbs, w, workers[w].entry) \o HookCalls(workers[w].cfg, workers[w].entry)
    /\ SetWorker(w, AfterCheck(workers[w].entry), ZeroState, ZeroState)
    /\ UNCHANGED <<active, configs, runners, chans, hist, clock, listener, snaps>>

\* The struct copy "h.states[stateEntry.Name] = *stateEntry" is not one
\* machine step: a goroutine that looked at the map without the mutex could
\* find some fields of the new State beside fields of the old one. The copy is
\* followed here in two parts, in either order; the pc in between is
\*   "updatehalf"  holds the mutex; one part of the State is in the map
StoreParts == {"head", "tail"}

\* the State in the map after one part of new has been copied over old
PartCopied(new, old, part) ==
    IF part = "head"
    THEN [old EXCEPT !.Name = new.Name, !.Status = new.Status, !.Err = new.Err, !.Fatal = new.Fatal]
    ELSE [old EXCEPT !.ContiguousFailures = new.ContiguousFailures,
                     !.TimeOfFirstFailure = new.TimeOfFirstFailure]

\* the first part of "h.states[stateEntry.Name] = *stateEntry", mutex held
StoreHalf(w, part) ==
    /\ workers[w].pc = "updateheld"
    /\ states' = MapSet(states, workers[w].entry.Name,
                        PartCopied(workers[w].entry, StateAt(states, workers[w].entry.Name), part))
    /\ SetWorker(w, "updatehalf", workers[w].entry, ZeroState)
    /\ UNCHANGED <<active, configs, runners, chans, hist, clock, listener, cbs, snaps, statesLock>>

\* the rest of the copy and the deferred Unlock(), then the hook's goroutine
\* is launched and checkFunc returns
StoreRest(w) ==
    /\ workers[w].pc = "updatehalf"
    /\ Running(cbs) + Len(HookCalls(workers[w].cfg, workers[w].entry)) <= MaxCallbacks
    /\ states' = MapSet(states, workers[w].entry.Name, workers[w].entry)
    /\ statesLock' = Unlock(w)
    /\ cbs' = Settle(cbs, w, workers[w].entry) \o HookCalls(workers[w].cfg, workers[w].entry)
    /\ SetWorker(w, AfterCheck(workers[w].entry), ZeroState, ZeroState)
    /\ UNCHANGED <<active, configs, runners, chans, hist, clock, listener, snaps>>

\* what the hook of the test suite writes through its pointer
changedName == "Guybrush Threepwood"
changedStatus == "never"

\* (mutation: the store holds the State the hook was handed, not a copy)
StoreAfterHookWrite_Shared(m, old, new) == [n \in DOMAIN m |-> IF m[n] = old THEN new ELSE m[n]]

\* h.states after a goroutine changed the State it was handed from old to
\* new: "h.states[stateEntry.Name] = *stateEntry" stored a copy
StoreAfterHookWrite(m, old, new) == m

\* the hook's "state.Name = changedName; state.Status = changedStatus"
OnCompleteWrites(i) ==
    LET new == [cbs[i].entry EXCEPT !.Name = changedName, !.Status = changedStatus]
    IN  /\ cbs[i].kind = "complete"
        /\ ~cbs[i].blocked
        /\ cbs[i].entry # new
        /\ cbs' = [cbs EXCEPT ![i].entry = new]
        /\ states' = StoreAfterHookWrite(states, cbs[i].entry, new)
        /\ UNCHANGED <<active, configs, runners, chans, workers, hist, clock, listener, snaps, statesLock>>

\* a listener or hook goroutine returns
CallbackReturns(i) ==
    /\ ~cbs[i].blocked
    /\ cbs' = RemoveAt(cbs, i)
    /\ UNCHANGED <<active, configs, runners, chans, workers, states, hist, clock, listener, snaps, statesLock>>

\* a listener or hook goroutine blocks, or is kept waiting for a processor
\* before its first statement: it does nothing from here on, unless
\* CallbackResumes lets it go on
CallbackBlocks(i) ==
    /\ ~cbs[i].blocked
    /\ Cardinality({j \in DOMAIN cbs : cbs[j].blocked}) < MaxBlocked
    /\ cbs' = [cbs EXCEPT ![i].blocked = TRUE]
    /\ UNCHANGED <<active, configs, runners, chans, workers, states, hist, clock, listener, snaps, statesLock>>

\* what the goroutine waited for has come: it goes on
CallbackResumes(i) ==
    /\ cbs[i].blocked
    /\ Running(cbs) < MaxCallbacks
    /\ cbs' = [cbs EXCEPT ![i].blocked = FALSE]
    /\ UNCHANGED <<active, configs, runners, chans, workers, states, hist, clock, listener, snaps, statesLock>>

\* (mutation: the goroutines are run in the order of their go statements)
MayStart_InLaunchOrder(cs, i) == \A k \in 1..(i - 1) : cs[k].started

\* whether the runtime may give the goroutine cs[i] a processor now: the
\* goroutines of "go f(...)" are run in no particular order
MayStart(cs, i) == TRUE

\* the listener's method begins to run in the goroutine launched for it (where
\* the begin is not followed, CallbackReturns is the whole run)
CallbackStarts(i) ==
    /\ ~cbs[i].started
    /\ ~cbs[i].blocked
    /\ MayStart(cbs, i)
    /\ cbs' = [cbs EXCEPT ![i].started = TRUE]
    /\ UNCHANGED <<active, configs, runners, chans, workers, states, hist, clock, listener, snaps, statesLock>>

\* The goroutines after a panic that nothing recovers (the package has no
\* recover()): the Go runtime ends the program, and every goroutine with it.
\* w is the worker that panicked, 0 for a panic in a launched goroutine. The
\* deferred ticker.Stop() of the panicking goroutine runs as it unwinds.
Crash(ws, w) ==
    [v \in DOMAIN ws |->
        [ws[v] EXCEPT !.pc = IF v = w THEN "panic" ELSE "killed",
                      !.entry = ZeroState, !.prev = ZeroState,
                      !.ticker = IF v = w THEN TickerAfterExit(@) ELSE @]]

\* the program has ended
Crashed == \E w \in DOMAIN workers : workers[w].pc \in {"panic", "killed"}

\* "cfg.Checker.Status()" on a nil Checker: a nil dereference in the worker
CheckerPanics(w) ==
    /\ workers[w].pc = "check"
    /\ ~workers[w].cfg.Checker
    /\ workers' = Crash(workers, w)
    /\ cbs' = << >>
    /\ UNCHANGED <<active, configs, runners, chans, states, hist, clock, listener, snaps, statesLock>>

\* the listener's method or the hook panics in the goroutine launched for it
CallbackPanics(i) ==
    /\ ~cbs[i].blocked
    /\ workers' = Crash(workers, 0)
    /\ cbs' = << >>
    /\ UNCHANGED <<active, configs, runners, chans, states, hist, clock, listener, snaps, statesLock>>

\* Stop's "close(stop)" on a channel that is closed already: a panic in the
\* host's goroutine, which nothing in the package recovers
StopPanics ==
    /\ StopErr(active) = nil
    /\ DoubleClose(chans, runners)
    /\ workers' = Crash(workers, 0)
    /\ cbs' = << >>
    /\ UNCHANGED <<active, configs, runners, chans, states, hist, clock, listener, snaps, statesLock>>

\* time passes
Tick ==
    /\ clock < MaxClock
    /\ clock' = clock + 1
    /\ UNCHANGED <<active, configs, runners, chans, workers, states, hist, listener, cbs, snaps, statesLock>>

\* ------------------------------------------------------- Failed() / State()
\* the result of a call with a boolean result, as hist remembers it
BoolStr(b) == IF b THEN "true" ELSE "false"

\* A map handed out by safeGetStates: m is the copy it made. (alias is TRUE
\* only where the caller was handed h.states itself; the code never does that.)
\* done says that the State() call which made it has returned, and failed is
\* the boolean that call returned with it.
Snapshot(alias, m) == [alias |-> alias, m |-> m, done |-> FALSE, failed |-> FALSE]

\* (mutation: h.states itself is returned)
safeGetStates_NoCopy(m) == Snapshot(TRUE, m)

\* safeGetStates: under the lock, every entry copied into a new map
safeGetStates(m) == Snapshot(FALSE, m)

\* the contents of a map that was handed out
MapOf(s) == IF s.alias THEN states ELSE s.m

\* (mutation: the Fatal flag is not looked at)
AnyFatalFailure_IgnoreFatal(m) == \E n \in DOMAIN m : isFailure(m[n])

\* the loop of Failed() over the map it was given
AnyFatalFailure(m) == \E n \in DOMAIN m : m[n].Fatal /\ isFailure(m[n])

\* Failed(): the loop over safeGetStates()
Failed ==
    /\ LockFree
    /\ Record("Failed", BoolStr(AnyFatalFailure(MapOf(safeGetStates(states)))))
    /\ UNCHANGED <<active, configs, runners, chans, workers, states, clock, listener, cbs, snaps, statesLock>>

\* State(), first operand of the return: h.safeGetStates()
StateCopies ==
    /\ LockFree
    /\ Len(snaps) < MaxSnaps
    /\ \A i \in DOMAIN snaps : snaps[i].done
    /\ snaps' = Append(snaps, safeGetStates(states))
    /\ UNCHANGED <<active, configs, runners, chans, workers, states, hist, clock, listener, cbs, statesLock>>

\* State(), second operand h.Failed(), and the return
StateReturns ==
    /\ LockFree
    /\ snaps # << >>
    /\ ~snaps[Len(snaps)].done
    /\ snaps' = [snaps EXCEPT ![Len(snaps)] =
                    [@ EXCEPT !.done = TRUE,
                              !.failed = AnyFatalFailure(MapOf(safeGetStates(states)))]]
    /\ Record("State", nil)
    /\ UNCHANGED <<active, configs, runners, chans, workers, states, clock, listener, cbs, statesLock>>

\* the host writes the map snaps[i] it was handed: new is the map after
WriteSnapshot(i, new) ==
    IF snaps[i].alias
    THEN states' = new /\ UNCHANGED snaps
    ELSE snaps' = [snaps EXCEPT ![i].m = new] /\ UNCHANGED states

\* the host's delete(m, n) on a returned map
SnapshotDelete(i, n) ==
    /\ snaps[i].done
    /\ n \in DOMAIN MapOf(snaps[i])
    /\ WriteSnapshot(i, MapDelete(MapOf(snaps[i]), n))
    /\ UNCHANGED <<active, configs, runners, chans, workers, hist, clock, listener, cbs, statesLock>>

\* the host's m[n] = State{...} on a returned map: an entry added or replaced
SnapshotPut(i, n) ==
    LET v == [ZeroState EXCEPT !.Name = changedName, !.Status = changedStatus]
    IN  /\ snaps[i].done
        /\ StateAt(MapOf(snaps[i]), n) # v
        /\ WriteSnapshot(i, MapSet(MapOf(snaps[i]), n, v))
        /\ UNCHANGED <<active, configs, runners, chans, workers, hist, clock, listener, cbs, statesLock>>

\* ------------------------------------------------------- observed streaks
\* no failed check stored since the worker's last ok check (or since it began)
NoStreak == [n |-> 0, first |-> 0]

\* a Stop() came in between: nothing is counted until the worker's next ok check
BrokenStreak == [n |-> -1, first |-> 0]

\* a Stop() breaks the streaks that have begun, and the streak of a worker
\* that has read the previous state and not yet written
StreakAfterStop(st, pc) ==
    IF st.n = 0 /\ pc \in {"check", "select", "done"} THEN st ELSE BrokenStreak

\* the streak after the worker stored e; a streak's first check sets its time
StreakAfterWrite(st, e) ==
    IF ~isFailure(e) THEN NoStreak
    ELSE IF st.n < 0 THEN st
    ELSE IF st.n = 0 THEN [n |-> 1, first |-> e.TimeOfFirstFailure]
    ELSE [st EXCEPT !.n = @ + 1]

\* the observation that goes with each step, for a host that has called
\* DisableLogging(): the noop logger ignores what it is handed
ObserveStart ==
    /\ streak' = [w \in DOMAIN workers' |-> IF w \in DOMAIN streak THEN streak[w] ELSE NoStreak]
    /\ UNCHANGED <<logs, sb>>
ObserveStop ==
    /\ streak' = IF StopErr(active) # nil THEN streak
                 ELSE [w \in DOMAIN streak |-> StreakAfterStop(streak[w], workers[w].pc)]
    /\ UNCHANGED <<logs, sb>>
ObserveWrite(w) ==
    /\ streak' = [streak EXCEPT ![w] = StreakAfterWrite(@, workers[w].entry)]
    /\ UNCHANGED <<logs, sb>>
Unobserved == UNCHANGED <<streak, logs, sb>>

\* ------------------------------------------------------- the logger's events
\* the configs of cs registered under name n
CountNamed(cs, n) == Cardinality({i \in DOMAIN cs : cs[i].Name = n})

\* Start's loop: Debug("Starting checker") with the config's name, once per
\* config, before its goroutine is launched
LogStart ==
    /\ logs' = IF StartErr(active) # nil \/ StartIsNoop(configs) THEN logs
               ELSE [logs EXCEPT !.starting = [n \in Names |-> @[n] + CountNamed(configs, n)],
                                 !.exiting = @ \o [i \in 1..Len(configs) |-> 0],
                                 !.failed = @ \o [i \in 1..Len(configs) |-> 0]]
    /\ UNCHANGED <<streak, sb>>

\* (mutation: Stop logs nothing)
StoppingEvents_None(rs, n) == 0

\* Stop's loop over h.runners: Debug("Stopping checker") with the key, once
\* per entry of the map
StoppingEvents(rs, n) == IF n \in DOMAIN rs THEN 1 ELSE 0

LogStop ==
    /\ logs' = IF StopErr(active) # nil THEN logs
               ELSE [logs EXCEPT !.stopping = [n \in Names |-> @[n] + StoppingEvents(runners, n)]]
    /\ UNCHANGED <<streak, sb>>

\* checkFunc: "if err != nil { ... Error("healthcheck has failed")"
LogCheck(w, err) ==
    /\ err = nil \/ logs.failed[w] < MaxLogged
    /\ logs' = IF err # nil THEN [logs EXCEPT !.failed[w] = @ + 1] ELSE logs
    /\ UNCHANGED <<streak, sb>>

\* the goroutine, after RunLoop: Debug("Checker exiting")
LogExit(w) ==
    /\ logs' = [logs EXCEPT !.exiting[w] = @ + 1]
    /\ UNCHANGED <<streak, sb>>

\* ------------------------------------------------------------ specifications
\* a host with neither listener nor hooks that calls the lifecycle operations
Next ==
    \/ \E cfgs \in Batches : AddChecks(cfgs) /\ Unobserved
    \/ \E cfg \in Config : AddCheck(cfg) /\ Unobserved
    \/ Start /\ Unobserved
    \/ Stop /\ Unobserved
    \/ \E w \in DOMAIN workers, err \in CheckErrs : StatusReturns(w, err) /\ Unobserved
    \/ \E w \in DOMAIN workers : SafeUpdateState(w) /\ Unobserved
    \/ \E w \in DOMAIN workers : SelectTick(w) /\ Unobserved
    \/ \E w \in DOMAIN workers : SelectStop(w) /\ Unobserved

Spec == Init /\ [][Next]_vars

\* a host that registers its checks in one call, starts and stops
NextW ==
    \/ \E cfgs \in Registrations(Config) : configs = << >> /\ AddChecks(cfgs) /\ Unobserved
    \/ Start /\ Unobserved
    \/ Stop /\ Unobserved
    \/ \E w \in DOMAIN workers, err \in CheckErrs : StatusReturns(w, err) /\ Unobserved
    \/ \E w \in DOMAIN workers : SafeUpdateState(w) /\ Unobserved
    \/ \E w \in DOMAIN workers : SelectTick(w) /\ Unobserved
    \/ \E w \in DOMAIN workers : SelectStop(w) /\ Unobserved

\* The scheduling the Go runtime gives a goroutine that can run: a worker
\* whose checker has returned goes on to the store write. That every
\* invocation of a checker returns is the assumption of the claims checked
\* here. Nothing is assumed about ticks or about the host.
Fairness ==
    \A w \in 1..MaxConfigs :
        /\ WF_vars(w \in DOMAIN workers /\ \E err \in CheckErrs : StatusReturns(w, err) /\ Unobserved)
        /\ WF_vars(w \in DOMAIN workers /\ SafeUpdateState(w) /\ Unobserved)

SpecW == Init /\ [][NextW]_vars /\ Fairness

\* a host that registers its checks in one call and may install a listener
\* before Start; time passes, and each worker's stored failures are counted
NextL ==
    \/ \E cfgs \in Registrations(Config) : configs = << >> /\ AddChecks(cfgs) /\ Unobserved
    \/ SetStatusListener /\ Unobserved
    \/ Start /\ ObserveStart
    \/ Stop /\ ObserveStop
    \/ \E w \in DOMAIN workers, err \in CheckErrs :
          /\ err = nil \/ streak[w].n < MaxFailures
          /\ StatusReturns(w, err)
          /\ Unobserved
    \/ \E w \in DOMAIN workers : SetTimeOfFirstFailure(w) /\ Unobserved
    \/ \E w \in DOMAIN workers : SetContiguousFailures(w) /\ Unobserved
    \/ \E w \in DOMAIN workers : SafeUpdateState(w) /\ ObserveWrite(w)
    \/ \E w \in DOMAIN workers : SelectTick(w) /\ Unobserved
    \/ \E w \in DOMAIN workers : SelectStop(w) /\ Unobserved
    \/ \E i \in DOMAIN cbs : CallbackReturns(i) /\ Unobserved
    \/ Tick /\ Unobserved

SpecL == Init /\ [][NextL]_vars

\* a host that registers its checks in one call and gives "foo" a hook
NextH ==
    \/ \E cfgs \in Registrations(HookedConfig) : configs = << >> /\ AddChecks(cfgs) /\ Unobserved
    \/ Start /\ Unobserved
    \/ Stop /\ Unobserved
    \/ \E w \in DOMAIN workers, err \in CheckErrs : StatusReturns(w, err) /\ Unobserved
    \/ \E w \in DOMAIN workers : SafeUpdateState(w) /\ Unobserved
    \/ \E w \in DOMAIN workers : SelectTick(w) /\ Unobserved
    \/ \E w \in DOMAIN workers : SelectStop(w) /\ Unobserved
    \/ \E i \in DOMAIN cbs : OnCompleteWrites(i) /\ Unobserved
    \/ \E i \in DOMAIN cbs : CallbackReturns(i) /\ Unobserved

SpecH == Init /\ [][NextH]_vars

\* a host that leaves the Checker of "bar" nil and may install a listener;
\* the checker call on nil panics, and the listener's methods may panic; once
\* the program has ended nothing happens any more
NextP ==
    \/ \E cfgs \in Registrations(NilCheckerConfig) :
          ~Crashed /\ configs = << >> /\ AddChecks(cfgs) /\ Unobserved
    \/ ~Crashed /\ SetStatusListener /\ Unobserved
    \/ ~Crashed /\ Start /\ Unobserved
    \/ ~Crashed /\ Stop /\ Unobserved
    \/ \E w \in DOMAIN workers, err \in CheckErrs : ~Crashed /\ StatusReturns(w, err) /\ Unobserved
    \/ \E w \in DOMAIN workers : ~Crashed /\ SetTimeOfFirstFailure(w) /\ Unobserved
    \/ \E w \in DOMAIN workers : ~Crashed /\ SetContiguousFailures(w) /\ Unobserved
    \/ \E w \in DOMAIN workers : ~Crashed /\ SafeUpdateState(w) /\ Unobserved
    \/ \E w \in DOMAIN workers : ~Crashed /\ SelectTick(w) /\ Unobserved
    \/ \E w \in DOMAIN workers : ~Crashed /\ SelectStop(w) /\ Unobserved
    \/ \E i \in DOMAIN cbs : ~Crashed /\ CallbackReturns(i) /\ Unobserved
    \/ \E w \in DOMAIN workers : ~Crashed /\ CheckerPanics(w) /\ Unobserved
    \/ \E i \in DOMAIN cbs : ~Crashed /\ CallbackPanics(i) /\ Unobserved

SpecP == Init /\ [][NextP]_vars

\* a host that registers one check, may give it a hook and may install a
\* listener; launched goroutines return, or block for good
NextB ==
    \/ \E cfg \in HookedConfig : configs = << >> /\ AddCheck(cfg) /\ Unobserved
    \/ SetStatusListener /\ Unobserved
    \/ Start /\ Unobserved
    \/ Stop /\ Unobserved
    \/ \E w \in DOMAIN workers, err \in CheckErrs : StatusReturns(w, err) /\ Unobserved
    \/ \E w \in DOMAIN workers : SetTimeOfFirstFailure(w) /\ Unobserved
    \/ \E w \in DOMAIN workers : SetContiguousFailures(w) /\ Unobserved
    \/ \E w \in DOMAIN workers : SafeUpdateState(w) /\ Unobserved
    \/ \E w \in DOMAIN workers : SelectTick(w) /\ Unobserved
    \/ \E w \in DOMAIN workers : SelectStop(w) /\ Unobserved
    \/ \E i \in DOMAIN cbs : CallbackReturns(i) /\ Unobserved
    \/ \E i \in DOMAIN cbs : CallbackBlocks(i) /\ Unobserved

\* The scheduling of the goroutines: a worker that can take its next step
\* takes it (every checker invocation returns), a launched goroutine that has
\* not blocked returns, and a select whose stop channel is closed again and
\* again takes that case in the end (select picks among its ready cases at
\* random).
FairnessB ==
    /\ \A w \in 1..MaxConfigs :
          /\ WF_vars(w \in DOMAIN workers /\ \E err \in CheckErrs : StatusReturns(w, err) /\ Unobserved)
          /\ WF_vars(w \in DOMAIN workers /\ SetTimeOfFirstFailure(w) /\ Unobserved)
          /\ WF_vars(w \in DOMAIN workers /\ SetContiguousFailures(w) /\ Unobserved)
          /\ WF_vars(w \in DOMAIN workers /\ SafeUpdateState(w) /\ Unobserved)
          /\ SF_vars(w \in DOMAIN workers /\ SelectStop(w) /\ Unobserved)
    /\ WF_vars(\E i \in DOMAIN cbs : CallbackReturns(i) /\ Unobserved)

SpecB == Init /\ [][NextB]_vars /\ FairnessB

\* a host that registers its checks in one call and under different names,
\* gives "foo" a hook, may install a listener and calls Failed() and Stop();
\* the workers take and release the mutex in steps of their own
NextK ==
    \/ \E cfgs \in Registrations(HookedConfig) :
          configs = << >> /\ DistinctNames(cfgs) /\ AddChecks(cfgs) /\ Unobserved
    \/ SetStatusListener /\ Unobserved
    \/ Start /\ Unobserved
    \/ Stop /\ Unobserved
    \/ Failed /\ Unobserved
    \/ \E w \in DOMAIN workers, err \in CheckErrs : CheckerReturns(w, err) /\ Unobserved
    \/ \E w \in DOMAIN workers : LockPrev(w) /\ Unobserved
    \/ \E w \in DOMAIN workers : UnlockPrev(w) /\ Unobserved
    \/ \E w \in DOMAIN workers : SetTimeOfFirstFailure(w) /\ Unobserved
    \/ \E w \in DOMAIN workers : SetContiguousFailures(w) /\ Unobserved
    \/ \E w \in DOMAIN workers : LockUpdate(w) /\ Unobserved
    \/ \E w \in DOMAIN workers : UnlockUpdate(w) /\ Unobserved
    \/ \E w \in DOMAIN workers : SelectTick(w) /\ Unobserved
    \/ \E w \in DOMAIN workers : SelectStop(w) /\ Unobserved
    \/ \E i \in DOMAIN cbs : CallbackReturns(i) /\ Unobserved

SpecK == Init /\ [][NextK]_vars

\* a host that registers one check and calls State() while the check
\* runs; the mutex and the copy into the map are followed part by part
NextM ==
    \/ \E cfgs \in Registrations(Config) : configs = << >> /\ DistinctNames(cfgs) /\ AddChecks(cfgs) /\ Unobserved
    \/ Start /\ Unobserved
    \/ Stop /\ Unobserved
    \/ \E w \in DOMAIN workers, err \in CheckErrs : CheckerReturns(w, err) /\ Unobserved
    \/ \E w \in DOMAIN workers : LockPrev(w) /\ Unobserved
    \/ \E w \in DOMAIN workers : UnlockPrev(w) /\ Unobserved
    \/ \E w \in DOMAIN workers : LockUpdate(w) /\ Unobserved
    \/ \E w \in DOMAIN workers, part \in StoreParts : StoreHalf(w, part) /\ Unobserved
    \/ \E w \in DOMAIN workers : StoreRest(w) /\ Unobserved
    \/ \E w \in DOMAIN workers : SelectTick(w) /\ Unobserved
    \/ \E w \in DOMAIN workers : SelectStop(w) /\ Unobserved
    \/ snaps = << >> /\ StateCopies /\ Unobserved
    \/ StateReturns /\ Unobserved

SpecM == Init /\ [][NextM]_vars

\* a host that keeps the logger New() installed, registers its checks in one
\* call, starts and stops
NextG ==
    \/ \E cfgs \in Registrations(Config) : configs = << >> /\ AddChecks(cfgs) /\ Unobserved
    \/ Start /\ LogStart
    \/ Stop /\ LogStop
    \/ \E w \in DOMAIN workers, err \in CheckErrs : StatusReturns(w, err) /\ LogCheck(w, err)
    \/ \E w \in DOMAIN workers : SafeUpdateState(w) /\ Unobserved
    \/ \E w \in DOMAIN workers : SelectTick(w) /\ Unobserved
    \/ \E w \in DOMAIN workers : SelectStop(w) /\ LogExit(w)

\* The scheduling of the goroutines: a worker that can take its next step
\* takes it (every checker invocation returns), and a select whose stop
\* channel is closed takes that case in the end (select picks among its ready
\* cases at random).
FairnessG ==
    \A w \in 1..MaxConfigs :
        /\ WF_vars(w \in DOMAIN workers /\ \E err \in CheckErrs : StatusReturns(w, err) /\ LogCheck(w, err))
        /\ WF_vars(w \in DOMAIN workers /\ SafeUpdateState(w) /\ Unobserved)
        /\ SF_vars(w \in DOMAIN workers /\ SelectStop(w) /\ LogExit(w))

SpecG == Init /\ [][NextG]_vars /\ FairnessG

\* a host with a listener and one check; the goroutines launched for the
\* listener are followed from the go statement to their first statement and to
\* their return
NextO ==
    \/ \E cfg \in Config : configs = << >> /\ AddCheck(cfg) /\ Unobserved
    \/ SetStatusListener /\ Unobserved
    \/ Start /\ Unobserved
    \/ Stop /\ Unobserved
    \/ \E w \in DOMAIN workers, err \in CheckErrs : StatusReturns(w, err) /\ Unobserved
    \/ \E w \in DOMAIN workers : SetTimeOfFirstFailure(w) /\ Unobserved
    \/ \E w \in DOMAIN workers : SetContiguousFailures(w) /\ Unobserved
    \/ \E w \in DOMAIN workers : SafeUpdateState(w) /\ Unobserved
    \/ \E w \in DOMAIN workers : SelectTick(w) /\ Unobserved
    \/ \E w \in DOMAIN workers : SelectStop(w) /\ Unobserved
    \/ \E i \in DOMAIN cbs : CallbackStarts(i) /\ Unobserved
    \/ \E i \in DOMAIN cbs : cbs[i].started /\ CallbackReturns(i) /\ Unobserved
    \/ \E i \in DOMAIN cbs : CallbackBlocks(i) /\ Unobserved
    \/ \E i \in DOMAIN cbs : CallbackResumes(i) /\ Unobserved

SpecO == Init /\ [][NextO]_vars

\* ------------------------------------------- the methods of sBool, in steps
\* the Health instance of the state is not touched by the callers of the sBool
HealthUntouched ==
    UNCHANGED <<active, configs, runners, chans, workers, states, hist, clock, listener, cbs, snaps,
                statesLock, logs, streak>>

SetCaller(c, op, pc, ret, result) ==
    [sb.callers EXCEPT ![c] = [op |-> op, pc |-> pc, ret |-> ret, result |-> result]]

\* caller c calls method op (String begins with its call of val)
sBoolCalls(c, op) ==
    /\ sb.callers[c].pc = "idle"
    /\ sb' = [sb EXCEPT !.callers = SetCaller(c, op, "lock", FALSE, "")]
    /\ HealthUntouched

\* "b.mu.Lock()" returns
sBoolLocks(c) ==
    /\ sb.callers[c].pc = "lock"
    /\ sBoolMutexFree(sb.mu)
    /\ sb' = [sb EXCEPT !.mu = c,
                        !.callers = SetCaller(c, sb.callers[c].op, "held", FALSE, "")]
    /\ HealthUntouched

\* the statement under the mutex: "b.v = true", "b.v = false" or the
\* evaluation of b.v in "return b.v"
sBoolStatement(c) ==
    LET op == sb.callers[c].op
    IN  /\ sb.callers[c].pc = "held"
        /\ sb' = [sb EXCEPT !.v = IF op = "setTrue" THEN setTrue(@)
                                  ELSE IF op = "setFalse" THEN setFalse(@) ELSE @,
                            !.callers = SetCaller(c, op, "unlock", sBoolVal(sb.v), "")]
        /\ HealthUntouched

\* the deferred "b.mu.Unlock()" and the return; String returns "true" or
\* "false" after the val() it called
sBoolReturns(c) ==
    LET op == sb.callers[c].op
        ret == sb.callers[c].ret
    IN  /\ sb.callers[c].pc = "unlock"
        /\ sb' = [sb EXCEPT !.mu = 0,
                            !.last = IF op = "setTrue" THEN TRUE ELSE IF op = "setFalse" THEN FALSE ELSE @,
                            !.callers = SetCaller(c, "", "idle", FALSE,
                                                  IF op = "String" THEN sBoolString(ret)
                                                  ELSE IF op = "val" THEN BoolStr(ret) ELSE "done")]
        /\ HealthUntouched

\* goroutines that call the methods of one sBool at any time
NextA ==
    \/ \E c \in Callers, op \in Methods : sBoolCalls(c, op)
    \/ \E c \in Callers : sBoolLocks(c)
    \/ \E c \in Callers : sBoolStatement(c)
    \/ \E c \in Callers : sBoolReturns(c)

SpecA == Init /\ [][NextA]_vars

\* a host that calls Failed() while the checks run
NextF ==
    \/ \E cfg \in Config : AddCheck(cfg) /\ Unobserved
    \/ Start /\ Unobserved
    \/ Stop /\ Unobserved
    \/ \E w \in DOMAIN workers, err \in CheckErrs : StatusReturns(w, err) /\ Unobserved
    \/ \E w \in DOMAIN workers : SafeUpdateState(w) /\ Unobserved
    \/ \E w \in DOMAIN workers : SelectTick(w) /\ Unobserved
    \/ \E w \in DOMAIN workers : SelectStop(w) /\ Unobserved
    \/ Failed /\ Unobserved

SpecF == Init /\ [][NextF]_vars

\* a host that registers one check, whose checker never fails twice in a row,
\* calls State() and writes the maps it was handed
NextS ==
    \/ \E cfg \in Config : configs = << >> /\ AddCheck(cfg) /\ Unobserved
    \/ Start /\ Unobserved
    \/ Stop /\ Unobserved
    \/ \E w \in DOMAIN workers, err \in CheckErrs :
          /\ err = nil \/ ~isFailure(StateAt(states, workers[w].cfg.Name))
          /\ StatusReturns(w, err)
          /\ Unobserved
    \/ \E w \in DOMAIN workers : SafeUpdateState(w) /\ Unobserved
    \/ \E w \in DOMAIN workers : SelectTick(w) /\ Unobserved
    \/ \E w \in DOMAIN workers : SelectStop(w) /\ Unobserved
    \/ StateCopies /\ Unobserved
    \/ StateReturns /\ Unobserved
    \/ \E i \in DOMAIN snaps, n \in Names : SnapshotDelete(i, n) /\ Unobserved
    \/ \E i \in DOMAIN snaps, n \in Names : SnapshotPut(i, n) /\ Unobserved

SpecS == Init /\ [][NextS]_vars

\* ------------------------------------------------------------ observations
Call(op, err) == [op |-> op, err |-> err]

\* the most recent API call was op and it returned err
LastCallIs(op, err) == hist # << >> /\ hist[Len(hist)] = Call(op, err)

\* the most recent API call was op
LastCallOp(op) == hist # << >> /\ hist[Len(hist)].op = op

\* the remembered calls end with a successful Stop followed by no successful Start
StoppedSince ==
    \E i \in DOMAIN hist :
        /\ hist[i] = Call("Stop", nil)
        /\ \A j \in DOMAIN hist : j > i => hist[j] # Call("Start", nil)

\* ------------------------------------------------------------------ claims

\* C1: in every state reached by a successful Stop() (and until the next
\* successful Start()), the active flag is false.
C1_StopDeactivates == StoppedSince => ~sBoolVal(active)

\* C2: restart works: a Start() issued directly after a successful Stop()
\* (which a successful Start() preceded) returns no error, so the sequence
\* Start, Stop, Start has all calls return no error and a worker runs again.
C2_RestartWorks ==
    \A i \in DOMAIN hist :
        (i + 1 \in DOMAIN hist /\ hist[i] = Call("Stop", nil) /\ hist[i + 1].op = "Start")
           => (hist[i + 1].err = nil /\ \E w \in DOMAIN workers : workers[w].pc # "done")

\* C3: Stop() returns ErrAlreadyStopped whenever the scheduler is not running:
\* as the first call on a fresh instance, after a zero-config Start, and directly
\* after a successful Stop().
C3_StopWhenNotRunning ==
    /\ (Len(hist) = 1 /\ hist[1].op = "Stop") => hist[1].err = ErrAlreadyStopped
    /\ \A i \in DOMAIN hist :
         (i + 1 \in DOMAIN hist /\ hist[i + 1].op = "Stop")
            => /\ (hist[i] = Call("Start", nil) /\ workers = << >>)
                    => hist[i + 1].err = ErrAlreadyStopped
               /\ hist[i] = Call("Stop", nil) => hist[i + 1].err = ErrAlreadyStopped

\* C4: after Stop() returns, and until Start() is called again, the state store
\* is empty: no worker adds an entry.
C4_EmptyAfterStop == StoppedSince => states = EmptyMap

\* C5: after a successful Stop() every worker spawned by the preceding Start()
\* has its stop signal closed.
C5_StopSignalsEveryWorker == StoppedSince => \A w \in DOMAIN workers : chans[w]

\* C6: AddCheck and AddChecks (even with an empty slice) called while the
\* scheduler is active return ErrNoAddCfgWhenActive and add no configuration:
\* no step taken while active changes the configuration list, and every
\* registration call recorded while active returned ErrNoAddCfgWhenActive.
C6_AddWhileActive ==
    [][sBoolVal(active)
         => /\ configs' = configs
            /\ (hist' # hist /\ (LastCallOp("AddChecks")' \/ LastCallOp("AddCheck")'))
                  => hist'[Len(hist')].err = ErrNoAddCfgWhenActive]_vars

C6_Witness ==
    /\ sBoolVal(active)
    /\ hist = <<Call("AddCheck", ErrNoAddCfgWhenActive), Call("AddChecks", ErrNoAddCfgWhenActive)>>
    /\ Len(configs) = 1

\* C7: Start() while the scheduler is active returns ErrAlreadyRunning and
\* spawns no worker; no config ever has two workers.
C7_StartWhileActive ==
    /\ [][(sBoolVal(active) /\ Start)
            => /\ LastCallIs("Start", ErrAlreadyRunning)'
               /\ workers' = workers /\ chans' = chans /\ runners' = runners]_vars
    /\ [](Len(workers) <= Len(configs))

C7_Witness ==
    /\ sBoolVal(active)
    /\ hist = <<Call("Start", nil), Call("Start", ErrAlreadyRunning)>>
    /\ Len(workers) = Len(configs)

\* C8: Start() with zero configurations returns no error, spawns no worker and
\* leaves the scheduler inactive; an AddCheck that follows succeeds and a Stop
\* that follows returns ErrAlreadyStopped.
C8_StartNoConfigs ==
    /\ [][(configs = << >> /\ Start)
            => /\ LastCallIs("Start", nil)'
               /\ workers' = workers /\ chans' = chans /\ runners' = runners
               /\ ~sBoolVal(active')]_vars
    /\ [](\A i \in DOMAIN hist :
            (i + 1 \in DOMAIN hist /\ hist[i] = Call("Start", nil) /\ workers = << >>)
               => /\ hist[i + 1].op = "AddCheck" => hist[i + 1].err = nil
                  /\ hist[i + 1].op = "Stop" => hist[i + 1].err = ErrAlreadyStopped)

C8_Witness ==
    /\ hist = <<Call("Start", nil), Call("AddCheck", nil)>>
    /\ workers = << >>
    /\ ~sBoolVal(active)
    /\ Len(configs) = 1

\* C9: Start() on an inactive instance with n >= 1 configurations of pairwise
\* distinct names returns no error, sets the scheduler active, spawns exactly
\* one worker per configuration, and leaves the runner map with exactly n stop
\* signals (all open, all different) keyed by the configuration names.
C9_StartSpawns ==
    [][(~sBoolVal(active) /\ Len(configs) >= 1 /\ DistinctNames(configs) /\ Start)
         => /\ LastCallIs("Start", nil)'
            /\ sBoolVal(active')
            /\ Len(workers') = Len(workers) + Len(configs)
            /\ \A i \in 1..Len(workers) : workers'[i] = workers[i]
            /\ \A i \in 1..Len(configs) :
                 /\ workers'[Len(workers) + i].cfg = configs[i]
                 /\ configs[i].Name \in DOMAIN runners'
                 /\ runners'[configs[i].Name] = Len(workers) + i
                 /\ ~chans'[Len(workers) + i]
            /\ DOMAIN runners' = {configs[i].Name : i \in 1..Len(configs)}
            /\ Cardinality(DOMAIN runners') = Len(configs)
            /\ Cardinality({runners'[n] : n \in DOMAIN runners'}) = Len(configs)]_vars

C9_Witness ==
    /\ LastCallIs("Start", nil)
    /\ sBoolVal(active)
    /\ Len(configs) = 2 /\ DistinctNames(configs)
    /\ Len(workers) = 2
    /\ Cardinality(DOMAIN runners) = 2

\* C10: while inactive, AddCheck appends one configuration and AddChecks
\* appends the given configurations in order after the registered ones, which
\* are kept; AddChecks with an empty slice returns no error and changes nothing.
AppendedInOrder(old, new, cfgs) ==
    /\ Len(new) = Len(old) + Len(cfgs)
    /\ \A i \in 1..Len(old) : new[i] = old[i]
    /\ \A j \in 1..Len(cfgs) : new[Len(old) + j] = cfgs[j]

C11_FailedIffFatalFailure ==
    [][Failed
         => hist'[Len(hist')] =
               Call("Failed",
                    BoolStr(\E n \in DOMAIN states :
                               states[n].Fatal = TRUE /\ states[n].Status = "failed"))]_vars

C11_Witness ==
    /\ hist = <<Call("Failed", "true"), Call("Failed", "false")>>
    /\ DOMAIN states = {"foo", "bar"}
    /\ states["foo"].Status = "failed" /\ ~states["foo"].Fatal
    /\ states["bar"].Status = "ok" /\ states["bar"].Fatal

\* C12: every entry of the store has contiguous_failures = 0 exactly when its
\* status is ok, and contiguous_failures >= 1 when its status is failed.
C12_CountMatchesStatus ==
    \A n \in DOMAIN states :
        /\ states[n].ContiguousFailures = 0 <=> states[n].Status = "ok"
        /\ states[n].Status = "failed" => states[n].ContiguousFailures >= 1

C12_Witness ==
    /\ DOMAIN states = {"foo", "bar"}
    /\ states["foo"].Status = "failed" /\ states["foo"].ContiguousFailures = MaxFailures
    /\ states["bar"].Status = "ok" /\ states["bar"].ContiguousFailures = 0

\* what C13 says of the streak of worker w
StreakStored(w) ==
    LET s == StateAt(states, workers[w].cfg.Name)
    IN  streak[w].n >= 1
          => /\ isFailure(s)
             /\ s.ContiguousFailures = streak[w].n
             /\ s.TimeOfFirstFailure = streak[w].first
             /\ s.TimeOfFirstFailure # 0

\* C13 as stated: after k >= 1 failed checks of a config in a row (the state
\* before them absent or ok, no Stop in between) the stored state of its name
\* has contiguous_failures = k and the time_of_first_failure that the first of
\* them stored.
C13_StreakStoredAnyNames == \A w \in DOMAIN workers : StreakStored(w)

\* C13, amended: the same, for configs registered under pairwise distinct names.
C13_StreakStored == DistinctNames(configs) => \A w \in DOMAIN workers : StreakStored(w)

C13_Witness ==
    /\ Len(configs) = 2 /\ DistinctNames(configs)
    /\ clock = 2
    /\ \E w \in DOMAIN workers :
          /\ streak[w] = [n |-> 2, first |-> 1]
          /\ StateAt(states, workers[w].cfg.Name).ContiguousFailures = 2
          /\ StateAt(states, workers[w].cfg.Name).TimeOfFirstFailure = 1

\* worker w's check ends in this step: Status() has returned and the
\* dispatcher has read the previous state
Checked(w) == workers[w].pc = "check" /\ workers'[w].pc # "check"

\* C14: an ok check of a config whose stored state is failed stores a state
\* with contiguous_failures = 0, the zero time_of_first_failure and an empty
\* error text.
C14_OkResets ==
    [][\A n \in DOMAIN states :
          (isFailure(states[n]) /\ n \in DOMAIN states' /\ states'[n].Status = "ok")
             => /\ states'[n].ContiguousFailures = 0
                /\ states'[n].TimeOfFirstFailure = 0
                /\ states'[n].Err = ""]_vars

C14_Witness ==
    \E i \in DOMAIN cbs :
        /\ cbs[i].kind = "recovered" /\ cbs[i].ref = 0
        /\ cbs[i].recordedFailures = MaxFailures
        /\ cbs[i].entry.Name \in DOMAIN states
        /\ states[cbs[i].entry.Name] =
              [Name |-> cbs[i].entry.Name, Status |-> "ok", Err |-> "",
               Fatal |-> cbs[i].entry.Fatal, ContiguousFailures |-> 0, TimeOfFirstFailure |-> 0]

\* the step launched exactly one goroutine, of this kind, for worker w
Launched(kind, w) ==
    /\ Len(cbs') = Len(cbs) + 1
    /\ \A i \in DOMAIN cbs : cbs'[i] = cbs[i]
    /\ cbs'[Len(cbs')].kind = kind
    /\ cbs'[Len(cbs')].ref = w

\* C15: with a listener installed before Start, a check whose status is
\* failed while the stored status is absent or ok launches HealthCheckFailed
\* exactly once, a check whose status is ok while the stored status is failed
\* launches HealthCheckRecovered exactly once, a check whose status equals the
\* stored status (or is ok with no stored state) launches nothing, and no
\* other step launches a listener call.
C15_ListenerOncePerTransition ==
    [][listener
         => /\ \A w \in DOMAIN workers :
                 LET prevState == StateAt(states, workers[w].cfg.Name)
                     status == workers'[w].entry.Status
                 IN  Checked(w)
                       => /\ (status = "failed" /\ prevState.Status # "failed")
                                => Launched("failed", w)
                          /\ (status = "ok" /\ prevState.Status = "failed")
                                => Launched("recovered", w)
                          /\ (status = prevState.Status \/ (status = "ok" /\ prevState.Status = ""))
                                => cbs' = cbs
            /\ (\A w \in DOMAIN workers : ~Checked(w)) => Len(cbs') <= Len(cbs)]_vars

C15_Witness ==
    /\ listener
    /\ \E i \in DOMAIN cbs :
          /\ cbs[i].kind = "failed" /\ cbs[i].ref = 0
          /\ StateAt(states, cbs[i].entry.Name).ContiguousFailures = 2

\* worker w's check ends in this step with a recovery reported to the listener
Recovers(w) ==
    /\ listener
    /\ Checked(w)
    /\ workers'[w].entry.Status = "ok"
    /\ isFailure(StateAt(states, workers[w].cfg.Name))

\* C16 as stated: a recovery after a streak of k failed checks of the config
\* reports recordedFailures = k.
C16_RecoveredReportsStreak ==
    [][\A w \in DOMAIN workers :
          (Recovers(w) /\ streak[w].n >= 1)
             => cbs'[Len(cbs')].recordedFailures = streak[w].n]_vars

\* C16, amended: a recovery is reported with the contiguous_failures of the
\* previous stored state (at least 1) and the time passed since that state's
\* time_of_first_failure; for configs registered under pairwise distinct names
\* and a streak of k failed checks with no Stop in between, these are k and the
\* time passed since the first failed check of the streak was stored.
C16_RecoveredArguments ==
    [][\A w \in DOMAIN workers :
          LET prevState == StateAt(states, workers[w].cfg.Name)
              cb == cbs'[Len(cbs')]
          IN  Recovers(w)
                => /\ Launched("recovered", w)
                   /\ cb.recordedFailures = prevState.ContiguousFailures
                   /\ cb.recordedFailures >= 1
                   /\ cb.failureSeconds = clock - prevState.TimeOfFirstFailure
                   /\ (DistinctNames(configs) /\ streak[w].n >= 1)
                         => /\ cb.recordedFailures = streak[w].n
                            /\ cb.failureSeconds = clock - streak[w].first]_vars

C16_Witness ==
    /\ DistinctNames(configs)
    /\ \E i \in DOMAIN cbs :
          /\ cbs[i].kind = "recovered"
          /\ cbs[i].recordedFailures = MaxFailures
          /\ cbs[i].failureSeconds = 1
          /\ Pointee(cbs[i]).Status = "ok"

\* C17: the state HealthCheckFailed reads through its pointer, whenever it
\* reads it, has contiguous_failures = 1 and a time_of_first_failure that is
\* set.
C17_ListenerSeesBookkeeping ==
    \A i \in DOMAIN cbs :
        cbs[i].kind = "failed"
           => /\ Pointee(cbs[i]).ContiguousFailures = 1
              /\ Pointee(cbs[i]).TimeOfFirstFailure # 0

\* worker w's checkFunc returns in this step
Completed(w) == workers[w].pc = "update" /\ workers'[w].pc = "select"

\* C18: every check of a config with an OnComplete hook launches the hook
\* exactly once, in the step that has written the state, with a state equal to
\* the one now stored under its name; a check of a config without hook
\* launches none, and no other step launches a hook.
C18_HookOncePerCheck ==
    [][/\ \A w \in DOMAIN workers :
            Completed(w)
              => IF workers[w].cfg.OnComplete
                 THEN /\ Launched("complete", 0)
                      /\ cbs'[Len(cbs')].entry = states'[workers[w].cfg.Name]
                      /\ cbs'[Len(cbs')].entry = workers[w].entry
                 ELSE Len(cbs') = Len(cbs)
       /\ (\A w \in DOMAIN workers : ~Completed(w)) => Len(cbs') <= Len(cbs)]_vars

C18_Witness ==
    \E i \in DOMAIN cbs :
        /\ cbs[i].kind = "complete"
        /\ cbs[i].entry.ContiguousFailures = 2
        /\ states[cbs[i].entry.Name] = cbs[i].entry

\* the hook of goroutine i writes the State it was handed in this step
HookWrote(i) ==
    /\ i \in DOMAIN cbs'
    /\ cbs[i].kind = "complete" /\ cbs'[i].kind = "complete"
    /\ cbs[i].entry.Name # changedName
    /\ cbs'[i].entry.Name = changedName

\* C19: a hook's write to the state it was handed leaves the store as it is,
\* and with it what Failed() and State() return; no entry of the store ever
\* shows what the hook wrote.
C19_HookWriteLeavesStore ==
    /\ [][(\E i \in DOMAIN cbs : HookWrote(i))
            => /\ states' = states
               /\ AnyFatalFailure(states') = AnyFatalFailure(states)
               /\ safeGetStates(states').m = safeGetStates(states).m]_vars
    /\ [](\A n \in DOMAIN states : states[n].Name = n /\ states[n].Status \in {"ok", "failed"})

C19_Witness ==
    \E i \in DOMAIN cbs :
        /\ cbs[i].kind = "complete"
        /\ cbs[i].entry.Name = changedName /\ cbs[i].entry.Status = changedStatus
        /\ "foo" \in DOMAIN states
        /\ states["foo"].Name = "foo" /\ states["foo"].Status = "ok"

\* the host writes the returned map i in this step
HostWrites(i) == \E n \in Names : SnapshotDelete(i, n) \/ SnapshotPut(i, n)

\* C20: a map returned by State() changes only when the host writes that
\* map: not when a worker writes the store, not when Stop resets it, not when
\* the host writes another returned map; and the host's write to a returned
\* map leaves the store as it is.
C20_SnapshotsIndependent ==
    [][\A i \in DOMAIN snaps :
          snaps[i].done
            => /\ MapOf(snaps[i])' # MapOf(snaps[i]) => HostWrites(i)
               /\ HostWrites(i) => states' = states]_vars

C20_Witness ==
    /\ Len(snaps) = 2 /\ snaps[1].done /\ snaps[2].done
    /\ LastCallIs("Stop", nil) /\ states = EmptyMap
    /\ StateAt(MapOf(snaps[1]), "foo").Name = changedName
    /\ "bar" \notin DOMAIN MapOf(snaps[1])
    /\ StateAt(MapOf(snaps[2]), "bar").Status = "failed"
    /\ "foo" \notin DOMAIN MapOf(snaps[2])

\* every registered config has an entry in the store under its name
AllStored == \A i \in DOMAIN configs : configs[i].Name \in DOMAIN states

\* a successful Stop() has closed a channel
StopCalled == \E i \in DOMAIN chans : chans[i]

C22_WrittenStateFromCheck ==
    [][\A w \in DOMAIN workers :
          LET cfg == workers[w].cfg
              e == workers'[w].entry
          IN  /\ \A err \in CheckErrs :
                    (Checked(w) /\ StatusReturns(w, err))
                       => /\ e.Name = cfg.Name /\ e.Fatal = cfg.Fatal
                          /\ err = nil => (e.Status = "ok" /\ e.Err = "")
                          /\ err # nil => (e.Status = "failed" /\ e.Err = err)
              /\ workers[w].pc \in {"first", "count"}
                    => /\ e.Name = workers[w].entry.Name
                       /\ e.Fatal = workers[w].entry.Fatal
                       /\ e.Status = workers[w].entry.Status
                       /\ e.Err = workers[w].entry.Err
              /\ Completed(w)
                    => /\ cfg.Name \in DOMAIN states'
                       /\ states'[cfg.Name] = workers[w].entry
                       /\ \A n \in DOMAIN states' :
                             n # cfg.Name => (n \in DOMAIN states /\ states'[n] = states[n])]_vars

C22_Witness ==
    /\ "foo" \in DOMAIN states /\ "bar" \in DOMAIN states
    /\ states["foo"].Name = "foo" /\ ~states["foo"].Fatal
    /\ states["foo"].Status = "failed" /\ states["foo"].Err = "things broke"
    /\ states["bar"].Name = "bar" /\ states["bar"].Fatal
    /\ states["bar"].Status = "ok" /\ states["bar"].Err = ""

\* C23: when the checker invocation of one check panics, the workers of the
\* other checks keep running: none of them is ended by it.
C23_SiblingsSurvivePanic ==
    \A w \in DOMAIN workers :
        workers[w].pc = "panic"
           => \A v \in DOMAIN workers : v # w => workers[v].pc # "killed"

\* C24: a panic in a listener callback (or a hook) reaches no worker: no
\* worker is ended by a panic that was not its own.
C24_CallbackPanicContained ==
    (\A w \in DOMAIN workers : workers[w].pc # "panic")
       => \A v \in DOMAIN workers : workers[v].pc # "killed"

\* two goroutines are inside the checker of one config
Overlap(v, w) ==
    /\ v # w
    /\ workers[v].cfg = workers[w].cfg
    /\ workers[v].pc = "check" /\ workers[w].pc = "check"

\* C25 as stated: for every registered check at most one invocation of its
\* checker is in progress, in every state any sequence of AddCheck/Start/Stop
\* calls reaches.
C25_OneInvocationPerConfig == \A v, w \in DOMAIN workers : ~Overlap(v, w)

\* C25, amended: every registration has one worker goroutine and never a
\* second one, whatever AddCheck/AddChecks/Start/Stop calls the host makes; a
\* goroutine begins a check only from the select, when its previous check has
\* written its state and returned; the store changes under a name only by the
\* write that ends a check of that name (or by Stop); and for configs
\* registered under pairwise distinct names no two invocations of one config's
\* checker are in progress at the same time.
C25_OneCheckAtATime ==
    /\ [](/\ Len(workers) <= Len(configs)
          /\ \A w \in DOMAIN workers : workers[w].cfg = configs[w]
          /\ DistinctNames(configs) => \A v, w \in DOMAIN workers : ~Overlap(v, w))
    /\ [][/\ \A w \in DOMAIN workers :
               (workers'[w].pc = "check" /\ workers[w].pc # "check") => workers[w].pc = "select"
          /\ \A n \in DOMAIN states' :
               (n \notin DOMAIN states \/ states'[n] # states[n])
                  => \E w \in DOMAIN workers :
                        /\ Completed(w)
                        /\ workers[w].cfg.Name = n
                        /\ states'[n] = workers[w].entry]_vars

C25_Witness ==
    /\ hist = <<Call("Stop", nil), Call("Start", ErrAlreadyRunning)>>
    /\ Len(configs) = 2 /\ DistinctNames(configs) /\ Len(workers) = 2
    /\ workers[1].pc = "check" /\ workers[2].pc = "update"

\* a launched goroutine has blocked for good
SomeBlocked == \E i \in DOMAIN cbs : cbs[i].blocked

\* worker w is in a check: its checker is invoked, or the dispatcher and the
\* store write are still to come
InCheck(w) ==
    /\ w \in DOMAIN workers
    /\ workers[w].pc \in {"check", "first", "count", "update"}

\* worker w waits in the select between tick and stop
AtSelect(w) == w \in DOMAIN workers /\ workers[w].pc = "select"

\* the stop channel of worker w is closed
Stopped(w) == w \in DOMAIN workers /\ chans[w]

\* worker w has left RunLoop
Exited(w) == w \in DOMAIN workers /\ workers[w].pc = "done"

\* C26: with a listener callback or a hook blocked for good, a worker's check
\* still ends with its state stored and the worker back in the select, where a
\* tick starts the next check, and a worker whose stop channel is closed still
\* exits.
C26_BlockedCallbackLeavesWorker ==
    /\ \A w \in 1..MaxConfigs :
          /\ (SomeBlocked /\ InCheck(w)) ~> AtSelect(w)
          /\ (SomeBlocked /\ Stopped(w)) ~> Exited(w)
    /\ [][\A w \in DOMAIN workers :
             (SomeBlocked /\ Completed(w)) => states'[workers[w].cfg.Name] = workers[w].entry]_vars
    /\ [](\A w \in DOMAIN workers :
             (SomeBlocked /\ workers[w].pc = "select") => ENABLED SelectTick(w))

C26_Witness ==
    /\ \E i \in DOMAIN cbs :
          /\ cbs[i].blocked /\ cbs[i].kind = "failed"
          /\ cbs[i].entry.Status = "failed"
          /\ StateAt(states, cbs[i].entry.Name).Status = "ok"
    /\ \E i \in DOMAIN cbs : ~cbs[i].blocked /\ cbs[i].kind = "complete"
    /\ workers[1].pc = "select"

\* C27: Stop() leaves the list of registered configs as it is, whether it
\* returns an error or not.
C27_StopKeepsConfigs == [][Stop => configs' = configs]_vars

C27_Witness ==
    /\ LastCallIs("Stop", nil)
    /\ Len(configs) = 2 /\ configs[1] # configs[2]
    /\ runners = EmptyMap

\* worker w has a failed check to store
FailedCheck(w) ==
    /\ w \in DOMAIN workers
    /\ workers[w].pc = "update"
    /\ isFailure(workers[w].entry)

\* C28: a worker with a failed check stores it and is back in the select (it
\* does not exit); in the select a tick starts its next check; and a worker
\* exits only when its stop channel is closed.
C28_FailureKeepsWorker ==
    /\ \A w \in 1..MaxConfigs : FailedCheck(w) ~> AtSelect(w)
    /\ [][\A w \in DOMAIN workers :
             /\ FailedCheck(w) => workers'[w].pc \in {"update", "select"}
             /\ workers'[w].pc = "done" => chans[w]]_vars
    /\ [](\A w \in DOMAIN workers : workers[w].pc = "select" => ENABLED SelectTick(w))

C28_Witness ==
    \E w \in DOMAIN workers :
        /\ workers[w].pc = "check"
        /\ ~chans[w]
        /\ StateAt(states, workers[w].cfg.Name).ContiguousFailures = MaxFailures
        /\ DistinctNames(configs)

\* worker w is where the mutex is held: between a Lock() and its Unlock()
InLockedSection(w) == w \in DOMAIN workers /\ workers[w].pc \in {"prevheld", "updateheld"}

\* C29: a worker inside a checker invocation does not hold statesLock; the
\* mutex is held only by a worker between a Lock() and its Unlock(), never by
\* a launched callback, and it is free after every step that launches one; so
\* with every worker inside its checker (or waiting, or gone) Failed() and
\* State() can take the mutex.
C29_NoLockAcrossChecker ==
    /\ [](\A w \in DOMAIN workers : workers[w].pc = "check" => statesLock # w)
    /\ [](statesLock # 0 => InLockedSection(statesLock))
    /\ []((\A w \in DOMAIN workers : workers[w].pc \in {"check", "select", "done"})
             => (ENABLED Failed /\ ENABLED StateCopies))
    /\ [][Len(cbs') > Len(cbs) => statesLock' = 0]_vars

C29_Witness ==
    /\ Len(workers) = 2
    /\ workers[1].pc = "check"
    /\ workers[2].pc = "updateheld" /\ statesLock = 2
    /\ LastCallIs("Failed", "true")
    /\ cbs # << >>

\* C30: Stop() can return whatever the workers are doing, and returns no
\* error on an active instance even when a worker is inside a checker
\* invocation; it leaves every worker goroutine where it is, and a worker
\* exits only from the select, with its stop channel closed.
C30_StopDoesNotWait ==
    /\ [](ENABLED Stop)
    /\ [][Stop => /\ workers' = workers
                  /\ sBoolVal(active) => LastCallIs("Stop", nil)']_vars
    /\ [][\A w \in DOMAIN workers :
             (workers'[w].pc = "done" /\ workers[w].pc # "done")
                => (workers[w].pc = "select" /\ chans[w])]_vars

C30_Witness ==
    /\ LastCallIs("Stop", nil)
    /\ \E w \in DOMAIN workers : workers[w].pc = "check" /\ chans[w]
    /\ \E w \in DOMAIN workers : workers[w].pc = "done"

\* -------------------------------------------------------------------- C31
\* the names under which a config is registered
RegisteredNames == {configs[i].Name : i \in DOMAIN configs}

\* e is the State one check of a registered config built: its status, error
\* text, failure count and time of first failure go together, and its Fatal
\* flag is that of a config of its name
FromOneCheck(e) ==
    /\ e.Status \in {"ok", "failed"}
    /\ isFailure(e) <=> e.Err # ""
    /\ isFailure(e) <=> e.ContiguousFailures > 0
    /\ isFailure(e) <=> e.TimeOfFirstFailure > 0
    /\ \E i \in DOMAIN configs : configs[i].Name = e.Name /\ configs[i].Fatal = e.Fatal

\* every entry of m sits under its own name and is the State of one check
WholeEntries(m) == \A n \in DOMAIN m : m[n].Name = n /\ FromOneCheck(m[n])

\* worker w is the goroutine that holds the mutex and writes its entry
WritesUnderLock(w) ==
    /\ statesLock = w
    /\ \A n \in DOMAIN states' : n # workers[w].cfg.Name => n \in DOMAIN states /\ states'[n] = states[n]
    /\ DOMAIN states \subseteq DOMAIN states'

\* C31: the store is a map from names of registered configs to one State
\* each; whenever the mutex is free, every entry is the State one check built,
\* stored under its own name; the store changes only by Stop's reset or by the
\* write of the worker that holds the mutex, to the entry of its own name; and
\* every entry of a map that State() handed out is the State one check built
\* (never fields of two checks side by side).
C31_WholeEntryPerName ==
    /\ [](DOMAIN states \subseteq RegisteredNames)
    /\ [](statesLock = 0 => WholeEntries(states))
    /\ [](\A i \in DOMAIN snaps : WholeEntries(MapOf(snaps[i])))
    /\ [][states' # states =>
            \/ states' = EmptyMap /\ statesLock = 0
            \/ \E w \in DOMAIN workers : WritesUnderLock(w)]_vars

\* State() returned a map with the failed entry of a check whose entry in the
\* store is being replaced at this moment: one part of the new State is in
\* the map beside the rest of the old one
C31_Witness ==
    \E i \in DOMAIN snaps, w \in DOMAIN workers :
        /\ snaps[i].done
        /\ workers[w].pc = "updatehalf"
        /\ workers[w].cfg.Name \in DOMAIN snaps[i].m
        /\ isFailure(snaps[i].m[workers[w].cfg.Name])
        /\ workers[w].cfg.Name \in DOMAIN states
        /\ ~FromOneCheck(states[workers[w].cfg.Name])
        /\ Len(configs) = 2

\* -------------------------------------------------------------------- C32
\* C32: a worker goroutine that has left its loop has stopped its ticker, and
\* a ticker is stopped by nothing else: the ticker of a worker runs exactly
\* as long as the worker has not exited; the exit and the release are one
\* step of the goroutine.
C32_TickerReleasedAtExit ==
    /\ [](\A w \in DOMAIN workers : workers[w].pc = "done" <=> ~workers[w].ticker)
    /\ [][\A w \in DOMAIN workers :
             (workers[w].pc # "done" /\ workers'[w].pc = "done") => (workers[w].ticker /\ ~workers'[w].ticker)]_vars

\* one worker has exited and released its ticker while the ticker of another
\* worker, whose stop channel is closed as well, still runs
C32_Witness ==
    \E v, w \in DOMAIN workers :
        /\ workers[v].pc = "done" /\ ~workers[v].ticker
        /\ workers[w].pc = "check" /\ workers[w].ticker /\ chans[w]

\* -------------------------------------------------------------------- C33
\* worker w's check has returned an error in this step
FailingCheck(w) ==
    workers[w].pc = "check" /\ workers'[w].pc # "check" /\ isFailure(workers'[w].entry)

\* the events of message msg that this step adds under name n
Logged(msg, n) == logs'[msg][n] - logs[msg][n]

\* C33: with distinct names registered, the Start that launches the workers
\* logs "Starting checker" exactly once for every registered name (and for no
\* other), the Stop that closes their channels logs "Stopping checker"
\* exactly once for every registered name, and a Stop that finds no runner
\* logs nothing; a worker has logged "Checker exiting" once when it has left
\* its loop and not before, which is after the "Stopping checker" of its
\* name, and every worker whose channel is closed gets there; a check that
\* returns an error adds exactly one "healthcheck has failed" event of its
\* worker, and no other step adds one.
C33_LoggedEvents ==
    /\ [][(Start /\ ~sBoolVal(active) /\ DistinctNames(configs))
            => \A n \in Names : Logged("starting", n) = IF n \in RegisteredNames THEN 1 ELSE 0]_vars
    /\ [][(Stop /\ sBoolVal(active) /\ DistinctNames(configs) /\ runners # EmptyMap)
            => \A n \in Names : Logged("stopping", n) = IF n \in RegisteredNames THEN 1 ELSE 0]_vars
    /\ [][(Stop /\ runners = EmptyMap) => logs' = logs]_vars
    /\ [](\A w \in DOMAIN workers : logs.exiting[w] = IF workers[w].pc = "done" THEN 1 ELSE 0)
    /\ [](DistinctNames(configs) =>
            \A w \in DOMAIN workers :
                logs.exiting[w] = 1 => logs.stopping[workers[w].cfg.Name] = 1)
    /\ [][\A w \in DOMAIN workers :
             logs'.failed[w] = logs.failed[w] + IF FailingCheck(w) THEN 1 ELSE 0]_vars
    /\ \A w \in 1..MaxConfigs :
          (DistinctNames(configs) /\ w \in DOMAIN workers /\ chans[w])
             ~> (w \in DOMAIN workers /\ logs.exiting[w] = 1)

\* two checks of distinct names started and stopped: two "Starting checker",
\* two "Stopping checker" and two "Checker exiting" events, and MaxLogged
\* error events of the first worker, whose checks failed that often
C33_Witness ==
    /\ Len(configs) = 2 /\ DistinctNames(configs)
    /\ LastCallIs("Stop", nil)
    /\ \A n \in Names : logs.starting[n] = 1 /\ logs.stopping[n] = 1
    /\ Len(workers) = 2
    /\ \A w \in DOMAIN workers : workers[w].pc = "done" /\ logs.exiting[w] = 1
    /\ logs.failed[1] = MaxLogged
    /\ logs.failed[2] = 0

\* -------------------------------------------------------------------- C34
\* C34: the boolean a State() call returned says whether the map the same
\* call returned holds a fatal check that failed.
C34_FlagMatchesSnapshot ==
    \A i \in DOMAIN snaps :
        snaps[i].done => (snaps[i].failed <=> AnyFatalFailure(MapOf(snaps[i])))

LifecycleFrame == UNCHANGED <<active, configs, runners, states, chans, workers>>

\* a registration call that is refused does the same whatever its argument:
\* these two stand for all of them
AnyConfig == CHOOSE cfg \in Config : TRUE
RefusedAdd == AddErr(active) # nil /\ (AddCheck(AnyConfig) \/ AddChecks(<< >>))

\* C36: a call of AddCheck or AddChecks that returns ErrNoAddCfgWhenActive,
\* a Start that returns ErrAlreadyRunning and a Stop that returns
\* ErrAlreadyStopped leave the active flag, the config list, the runner map
\* and the state store (and the channels and goroutines) as they were; the
\* call and its error are all that is new.
C36_ErrorChangesNothing ==
    /\ [][RefusedAdd => /\ LifecycleFrame
                        /\ hist'[Len(hist')].err = ErrNoAddCfgWhenActive]_vars
    /\ [][(Start /\ StartErr(active) # nil)
             => (LifecycleFrame /\ LastCallIs("Start", ErrAlreadyRunning)')]_vars
    /\ [][(Stop /\ StopErr(active) # nil)
             => (LifecycleFrame /\ LastCallIs("Stop", ErrAlreadyStopped)')]_vars

\* on a running instance with results stored, a Start and then an AddCheck
\* were refused
C36_Witness ==
    /\ hist = <<Call("Start", ErrAlreadyRunning), Call("AddCheck", ErrNoAddCfgWhenActive)>>
    /\ runners # EmptyMap
    /\ states # EmptyMap
    /\ Len(configs) = 2

\* -------------------------------------------------------------------- C37
\* C37: every channel in the runner map is open, so the loop of Stop closes
\* open channels only and the panic of a second close cannot happen; a
\* channel is closed by Stop alone, and only while it is in the runner map.
C37_NoDoubleClose ==
    /\ [](~DoubleClose(chans, runners))
    /\ [](~ENABLED StopPanics)
    /\ [][\A i \in DOMAIN chans :
             (~chans[i] /\ chans'[i]) => (Stop /\ \E n \in DOMAIN runners : runners[n] = i)]_vars

\* Stop() has returned nil twice in a row on an instance with two checks of
\* one name: the channel the runner map held is closed, the other is open
C37_Witness ==
    /\ hist = <<Call("Stop", nil), Call("Stop", nil)>>
    /\ Len(workers) = 2
    /\ workers[1].cfg.Name = workers[2].cfg.Name
    /\ chans = <<FALSE, TRUE>>
    /\ runners = EmptyMap

\* -------------------------------------------------------------------- C38
\* C38 as stated, for the one check of the instance: HealthCheckFailed begins
\* to run before every HealthCheckRecovered that was launched after it.
C38_CallbacksInOrder ==
    \A i, j \in DOMAIN cbs :
        (i < j /\ cbs[i].kind = "failed" /\ cbs[j].kind = "recovered" /\ cbs[j].started)
           => cbs[i].started

\* C38, amended: the goroutines for the listener are launched in the order of
\* the transitions (HealthCheckFailed by a failed check that finds no failure
\* stored, HealthCheckRecovered by an ok check that finds one), but they begin
\* to run in any order: every launched goroutine that has not begun and does
\* not wait may begin now, whatever was launched before it.
C38_LaunchedInOrderOnly ==
    /\ [][\A w \in DOMAIN workers :
             LET stored == StateAt(states, workers[w].cfg.Name)
             IN  /\ Launched("failed", w) => ~isFailure(stored)
                 /\ Launched("recovered", w) => isFailure(stored)]_vars
    /\ [](\A i \in DOMAIN cbs :
             (~cbs[i].started /\ ~cbs[i].blocked) => ENABLED CallbackStarts(i))

\* HealthCheckRecovered runs while the HealthCheckFailed of the same streak,
\* launched before it, has not begun
C38_Witness ==
    /\ Len(cbs) = 2
    /\ cbs[1].kind = "failed" /\ ~cbs[1].started
    /\ cbs[2].kind = "recovered" /\ cbs[2].started /\ cbs[2].recordedFailures = 1

\* -------------------------------------------------------------------- C39
\* caller c holds the mutex of the sBool
InMethod(c) == sb.callers[c].pc \in {"held", "unlock"}

\* caller c returns from its method in this step
MethodReturns(c) == sb.callers[c].pc = "unlock" /\ sb'.callers[c].pc = "idle"

\* C39: a new sBool is false; at most one caller is inside a method's locked
\* section, and it is the holder of the mutex; whenever the mutex is free, v
\* is the value written by the setter that returned most recently (false if
\* none has); the v that val() reads, alone or within String(), is that
\* value, and it is what val() returns; String() returns "true" when the v
\* its val() read is true and "false" otherwise.
C39_sBoolLastCompletedWrite ==
    /\ [](\A c, d \in Callers : (InMethod(c) /\ InMethod(d)) => c = d)
    /\ [](\A c \in Callers : InMethod(c) <=> sb.mu = c)
    /\ [](sb.mu = 0 => sb.v = sb.last)
    /\ [](\A c \in Callers :
            (sb.callers[c].pc = "unlock" /\ sb.callers[c].op \notin Setters)
               => sb.callers[c].ret = sb.last)
    /\ [][\A c \in Callers :
             MethodReturns(c)
               => /\ sb.callers[c].op = "val"
                       => sb'.callers[c].result = BoolStr(sb'.last)
                  /\ sb.callers[c].op = "String"
                       => /\ sb'.callers[c].result = (IF sb'.last THEN "true" ELSE "false")
                          /\ sb'.callers[c].result \in {"true", "false"}
                  /\ sb.callers[c].op \in Setters
                       => sb'.v = (sb.callers[c].op = "setTrue")]_vars

\* setTrue has returned and String() has returned "true" to the second
\* caller; the first caller, in setFalse, has written false and still holds
\* the mutex
C39_Witness ==
    /\ sb.last = TRUE
    /\ sb.v = FALSE
    /\ sb.callers[1].op = "setFalse" /\ sb.callers[1].pc = "unlock"
    /\ sb.callers[2].pc = "idle" /\ sb.callers[2].result = "true"
====
